---- MODULE Spec2Model ----
(***************************************************************************)
(* Algebra-tile manipulative (src/script.js): tiles, drag gestures, the    *)
(* snap resolver, the arrangement validator, the factoring solver with its *)
(* auto-layout, and the animation stepper.                                 *)
(*                                                                         *)
(* Lengths are integers in sub-pixel units, PX units to a pixel, so that   *)
(* the half-pixel quantities of the code (w / 2, the 0.5 settle threshold, *)
(* the 0.1 ease) are whole numbers.  Areas are in square sub-pixel units.  *)
(***************************************************************************)
EXTENDS Integers, Sequences, FiniteSets, TLC

VARIABLES
    tiles,        \* App.tiles: the arrangement, back to front
    dragTarget,   \* App.dragTarget: 0 = null, k > 0 = tiles[k], Detached = a tile no longer in tiles
    detached,     \* the tile dragTarget refers to when it is not in tiles
    dragOffset,   \* App.dragOffset
    sizes,        \* TILE_CONFIG.SIZES
    canvas,       \* canvas.width, canvas.height
    fields,       \* parseInt of the three coefficient form fields
    isAnimating,  \* App.isAnimating
    feedback,     \* the message showFeedback displayed last
    verdict,      \* the outcome of the last validateArrangement call
    plan          \* the locals of the last solveAndAnimate call

vars == <<tiles, dragTarget, detached, dragOffset, sizes, canvas, fields,
          isAnimating, feedback, verdict, plan>>

----------------------------------------------------------------------------
(* Resolution and bounds *)

\* sub-pixel units per pixel: the coarsest grid on which 0.5 px and a tenth
\* of anything above 0.5 px are whole
PX == 2 * 10

MaxA == 4
MaxB == 5
MaxC == 6

AnimMaxA == 2
AnimMaxB == 3
AnimMaxC == 2

ValMax == 1

MaxTiles == 2

MaxSpawned == 1

----------------------------------------------------------------------------
(* Arithmetic of the host language *)

Abs(v) == IF v < 0 THEN -v ELSE v

\* JavaScript %: the remainder takes the sign of the dividend
JsRem(v, d) == IF v < 0 THEN -((-v) % Abs(d)) ELSE v % Abs(d)

\* exact quotient truncated toward zero
TruncDiv(v, d) ==
    LET k == Abs(v) \div Abs(d)
    IN  IF (v < 0) = (d < 0) THEN k ELSE -k

\* Math.floor(Math.sqrt(num))
FloorSqrt(num) == CHOOSE r \in 0..num : r * r <= num /\ (r + 1) * (r + 1) > num

\* parseInt(field) || dflt: NaN (<<>>) and 0 both give the default
OrDefault(f, dflt) == IF Len(f) = 0 \/ f[1] = 0 THEN dflt ELSE f[1]

----------------------------------------------------------------------------
(* Configuration *)

GAP == 10

DesktopSizes == [x |-> 200 * PX, u |-> 25 * PX]
MobileSizes  == [x |-> 100 * PX, u |-> 20 * PX]

\* updateTileConfig: window.innerWidth <= 768 selects the mobile sizes
updateTileConfig(narrow) == IF narrow THEN MobileSizes ELSE DesktopSizes

----------------------------------------------------------------------------
(* Tile *)

\* Tile.updateDimensions
updateDimensions(t) ==
    IF t.type = "x2" THEN [t EXCEPT !.w = t.xSize, !.h = t.xSize]
    ELSE IF t.type = "x"
         THEN [t EXCEPT !.w = IF t.rotation = 0 THEN t.xSize ELSE t.uSize,
                        !.h = IF t.rotation = 0 THEN t.uSize ELSE t.xSize]
         ELSE [t EXCEPT !.w = t.uSize, !.h = t.uSize]

\* new Tile(type, x, y, isNegative); targetX and targetY start undefined
NewTile(type, x, y, isNegative, sz) ==
    updateDimensions(
        [type |-> type, x |-> x, y |-> y, hasPos |-> TRUE,
         isNegative |-> isNegative, rotation |-> 0, isDragging |-> FALSE,
         uSize |-> sz.u, xSize |-> sz.x, w |-> 0, h |-> 0,
         hasTarget |-> FALSE, targetX |-> 0, targetY |-> 0])

\* the value of detached while dragTarget is null or is in tiles
NoTile == NewTile("one", 0, 0, FALSE, DesktopSizes)

Detached == -1

\* Tile.contains: a comparison with an undefined coordinate is false
contains(t, mx, my) ==
    /\ t.hasPos
    /\ mx >= t.x /\ mx <= t.x + t.w
    /\ my >= t.y /\ my <= t.y + t.h

\* Tile.rotate
rotate(t) ==
    IF t.type = "x"
    THEN updateDimensions([t EXCEPT !.rotation = IF t.rotation = 0 THEN 1 ELSE 0])
    ELSE t

----------------------------------------------------------------------------
(* generateTiles *)

\* the x^2 tiles: one row, each X + gap to the right of the last
GenX2(a, sz) ==
    [i \in 1..Abs(a) |->
        NewTile("x2", 50 * PX + (i - 1) * (sz.x + GAP * PX), 50 * PX, a < 0, sz)]

\* the x tiles: 50 px apart, wrapping to a new line 110 px lower after ten
GenX(b, sz) ==
    [i \in 1..Abs(b) |->
        NewTile("x", 50 * PX + ((i - 1) % 10) * 50 * PX,
                170 * PX + ((i - 1) \div 10) * 110 * PX, b < 0, sz)]

\* startY once the x loop has run: 170, and 110 more for each wrap
GenXEndY(b) == 170 * PX + (Abs(b) \div 10) * 110 * PX

\* the unit tiles: one row, 120 px below the last line of x tiles
GenOne(b, c, sz) ==
    [i \in 1..Abs(c) |->
        NewTile("one", 50 * PX + (i - 1) * 50 * PX, GenXEndY(b) + 120 * PX, c < 0, sz)]

generateTiles(a, b, c, sz) == GenX2(a, sz) \o GenX(b, sz) \o GenOne(b, c, sz)

----------------------------------------------------------------------------
(* The factoring solver *)

RECURSIVE FactorsFrom(_, _)
\* the while loop of getClosestFactors, counting m down
FactorsFrom(num, m) ==
    IF m > 0
    THEN IF num % m = 0 THEN <<m, num \div m>> ELSE FactorsFrom(num, m - 1)
    ELSE <<1, num>>

getClosestFactors(num) == FactorsFrom(Abs(num), FloorSqrt(Abs(num)))

\* the q tried with p = i: <<skip, p, q>>
Candidate(i, m, b, c) ==
    IF c # 0
    THEN IF i = 0 \/ JsRem(c, i) # 0
         THEN [skip |-> TRUE, p |-> 0, q |-> 0]
         ELSE [skip |-> FALSE, p |-> i, q |-> TruncDiv(c, i)]
    ELSE IF i # 0
         THEN [skip |-> TRUE, p |-> 0, q |-> 0]
         ELSE [skip |-> FALSE, p |-> 0,
               q |-> IF m # 0 /\ JsRem(b, m) = 0 THEN TruncDiv(b, m) ELSE 0]

\* the acceptance test with p and q exchanged
AcceptsSwapped(m, n, p, q, b) == (m * p) + (n * q) = b

\* the acceptance test of the search loop
Accepts(m, n, p, q, b) == (m * q) + (n * p) = b

RECURSIVE SearchFrom(_, _, _, _, _, _)
\* the for loop of solveAndAnimate from i up to limit: the first accepted pair
SearchFrom(i, limit, m, n, b, c) ==
    IF i > limit THEN [found |-> FALSE, p |-> 0, q |-> 0]
    ELSE LET cand == Candidate(i, m, b, c)
         IN  IF ~cand.skip /\ Accepts(m, n, cand.p, cand.q, b)
             THEN [found |-> TRUE, p |-> cand.p, q |-> cand.q]
             ELSE SearchFrom(i + 1, limit, m, n, b, c)

SearchLimit(b, c) == IF Abs(c) = 0 THEN Abs(b) ELSE Abs(c)

\* the coefficients solveAndAnimate works with
SolverCoeffs(f) == [a |-> OrDefault(f.a, 1), b |-> OrDefault(f.b, 5), c |-> OrDefault(f.c, 6)]

\* the search of solveAndAnimate: its locals a, b, c, m, n, p, q, found
Solve(f) ==
    LET k   == SolverCoeffs(f)
        mn  == getClosestFactors(k.a)
        lim == SearchLimit(k.b, k.c)
        r   == SearchFrom(-lim, lim, mn[1], mn[2], k.b, k.c)
    IN  [a |-> k.a, b |-> k.b, c |-> k.c, m |-> mn[1], n |-> mn[2],
         p |-> r.p, q |-> r.q, found |-> r.found, called |-> TRUE]

NoPlan == [a |-> 0, b |-> 0, c |-> 0, m |-> 0, n |-> 0, p |-> 0, q |-> 0,
           found |-> FALSE, called |-> FALSE]

----------------------------------------------------------------------------
(* The auto-layout of solveAndAnimate *)

\* the same index counted from one
TypeIndexFromOne(ts, k) == Cardinality({j \in 1..k : ts[j].type = ts[k].type})

\* the index a tile has in the list of the tiles of its type (x2List, xList, oneList)
TypeIndex(ts, k) == Cardinality({j \in 1..(k - 1) : ts[j].type = ts[k].type})

SetTarget(t, tx, ty) == [t EXCEPT !.hasTarget = TRUE, !.targetX = tx, !.targetY = ty]

\* the four placement loops, for the tile at index k of ts
PlaceTile(ts, k, pl, sz, cv) ==
    LET t       == ts[k]
        j       == TypeIndex(ts, k)
        X       == sz.x
        U       == sz.u
        gridW   == pl.m * X
        gridH   == pl.n * X
        totalW  == IF pl.p > 0 THEN gridW + pl.p * U ELSE gridW
        totalH  == IF pl.q > 0 THEN gridH + pl.q * U ELSE gridH
        startX  == TruncDiv(cv.width - totalW, 2)
        startY  == TruncDiv(cv.height - totalH, 2)
        pAbs    == Abs(pl.p)
        qAbs    == Abs(pl.q)
        vStartX == IF pl.p < 0 THEN startX + gridW - pAbs * U ELSE startX + gridW
        hStartY == IF pl.q < 0 THEN startY + gridH - qAbs * U ELSE startY + gridH
    IN  IF t.type = "x2"
        THEN \* 1. rows of m squares, n rows
             IF j < pl.n * pl.m
             THEN SetTarget(t, startX + (j % pl.m) * t.xSize,
                               startY + (j \div pl.m) * t.xSize)
             ELSE t
        ELSE IF t.type = "x"
        THEN \* 2. p columns of n vertical bars, then 3. q rows of m horizontal bars
             IF j < pAbs * pl.n
             THEN SetTarget(updateDimensions([t EXCEPT !.rotation = 1]),
                            vStartX + (j \div pl.n) * U,
                            startY + (j % pl.n) * X)
             ELSE IF j - pAbs * pl.n < qAbs * pl.m
             THEN SetTarget(updateDimensions([t EXCEPT !.rotation = 0]),
                            startX + ((j - pAbs * pl.n) % pl.m) * X,
                            hStartY + ((j - pAbs * pl.n) \div pl.m) * U)
             ELSE t
        ELSE \* 4. q rows of p units
             IF j < qAbs * pAbs
             THEN SetTarget(t, vStartX + (j % pAbs) * U, hStartY + (j \div pAbs) * U)
             ELSE t

AssignTargets(ts, pl, sz, cv) == [k \in 1..Len(ts) |-> PlaceTile(ts, k, pl, sz, cv)]

\* this.tiles.sort by rank x2 < x < one; the sort is stable
SortForRender(ts) ==
    LET IsX2(t)  == t.type = "x2"
        IsX(t)   == t.type = "x"
        IsOne(t) == t.type = "one"
    IN  SelectSeq(ts, IsX2) \o SelectSeq(ts, IsX) \o SelectSeq(ts, IsOne)

----------------------------------------------------------------------------
(* The animation stepper of render *)

\* 0.5 px
SettleThreshold == PX \div 2

\* (target - v) * 0.1, rounded toward zero to the sub-pixel grid
Ease(v, target) == TruncDiv(target - v, 10)

\* an axis that moves until it is exactly on the target
MovesUntilExact(has, v, hasT, target) == has /\ hasT /\ Abs(v - target) > 0

\* an axis still moves: Math.abs(v - target) > 0.5, false when either is undefined
Moves(has, v, hasT, target) == has /\ hasT /\ Abs(v - target) > SettleThreshold

StepAxis(has, v, hasT, target) ==
    IF Moves(has, v, hasT, target) THEN v + Ease(v, target) ELSE target

\* one pass of the loop body over a tile; a tile without target takes the
\* undefined target as its position
StepTile(t) ==
    IF t.hasTarget
    THEN [t EXCEPT !.x = StepAxis(t.hasPos, t.x, TRUE, t.targetX),
                   !.y = StepAxis(t.hasPos, t.y, TRUE, t.targetY),
                   !.hasPos = TRUE]
    ELSE [t EXCEPT !.x = 0, !.y = 0, !.hasPos = FALSE]

TileActive(t) ==
    \/ Moves(t.hasPos, t.x, t.hasTarget, t.targetX)
    \/ Moves(t.hasPos, t.y, t.hasTarget, t.targetY)

StepActive(ts) == \E k \in 1..Len(ts) : TileActive(ts[k])

----------------------------------------------------------------------------
(* snapToNeighbors *)

snapDist == 15 * PX

Near(u, v) == Abs(u - v) < snapDist

\* the edges the loop body reads before it writes anything
Edges(t) == [L |-> t.x, R |-> t.x + t.w, T |-> t.y, B |-> t.y + t.h]

\* Each family gives the position <<x, y>> it snaps tile to, or <<>>.

\* 1. right of other
SnapRight(tile, other) ==
    LET t == Edges(tile)
        o == Edges(other)
    IN  IF Near(t.L, o.R)
        THEN IF Near(t.T, o.T) THEN <<o.R, o.T>>
             ELSE IF Near(t.B, o.B) THEN <<o.R, o.B - tile.h>> ELSE <<>>
        ELSE <<>>

\* left of other, without making room for the width of the tile
SnapLeftNoWidth(tile, other) ==
    LET t == Edges(tile)
        o == Edges(other)
    IN  IF Near(t.R, o.L)
        THEN IF Near(t.T, o.T) THEN <<o.L, o.T>>
             ELSE IF Near(t.B, o.B) THEN <<o.L, o.B - tile.h>> ELSE <<>>
        ELSE <<>>

\* 2. left of other
SnapLeft(tile, other) ==
    LET t == Edges(tile)
        o == Edges(other)
    IN  IF Near(t.R, o.L)
        THEN IF Near(t.T, o.T) THEN <<o.L - tile.w, o.T>>
             ELSE IF Near(t.B, o.B) THEN <<o.L - tile.w, o.B - tile.h>> ELSE <<>>
        ELSE <<>>

\* 3. bottom of other
SnapBottom(tile, other) ==
    LET t == Edges(tile)
        o == Edges(other)
    IN  IF Near(t.T, o.B)
        THEN IF Near(t.L, o.L) THEN <<o.L, o.B>>
             ELSE IF Near(t.R, o.R) THEN <<o.R - tile.w, o.B>> ELSE <<>>
        ELSE <<>>

\* 4. top of other
SnapTop(tile, other) ==
    LET t == Edges(tile)
        o == Edges(other)
    IN  IF Near(t.B, o.T)
        THEN IF Near(t.L, o.L) THEN <<o.L, o.T - tile.h>>
             ELSE IF Near(t.R, o.R) THEN <<o.R - tile.w, o.T - tile.h>> ELSE <<>>
        ELSE <<>>

\* inner: left-left align, and bars stacked down or up
SnapLeftLeft(tile, other) ==
    LET t == Edges(tile)
        o == Edges(other)
    IN  IF Near(t.L, o.L)
        THEN IF Near(t.T, o.T) THEN <<o.L, o.T>>
             ELSE IF Near(t.B, o.B) THEN <<o.L, o.B - tile.h>>
             ELSE IF Near(t.T, o.B) THEN <<o.L, o.B>>
             ELSE IF Near(t.B, o.T) THEN <<o.L, o.T - tile.h>> ELSE <<>>
        ELSE <<>>

\* inner: top-top align, and bars stacked sideways
SnapTopTop(tile, other) ==
    LET t == Edges(tile)
        o == Edges(other)
    IN  IF Near(t.T, o.T)
        THEN IF Near(t.L, o.L) THEN <<o.L, o.T>>
             ELSE IF Near(t.R, o.R) THEN <<o.R - tile.w, o.T>>
             ELSE IF Near(t.L, o.R) THEN <<o.R, o.T>>
             ELSE IF Near(t.R, o.L) THEN <<o.L - tile.w, o.T>> ELSE <<>>
        ELSE <<>>

\* the loop body for one other tile: the first family that snaps; a
\* comparison with an undefined coordinate is false
SnapTo(tile, other) ==
    IF ~tile.hasPos \/ ~other.hasPos THEN <<>>
    ELSE IF SnapRight(tile, other) # <<>> THEN SnapRight(tile, other)
    ELSE IF SnapLeft(tile, other) # <<>> THEN SnapLeft(tile, other)
    ELSE IF SnapBottom(tile, other) # <<>> THEN SnapBottom(tile, other)
    ELSE IF SnapTop(tile, other) # <<>> THEN SnapTop(tile, other)
    ELSE IF SnapLeftLeft(tile, other) # <<>> THEN SnapLeftLeft(tile, other)
    ELSE SnapTopTop(tile, other)

RECURSIVE SnapFrom(_, _, _, _)
\* the loop over this.tiles from index j on, skipping the tile itself (index self)
SnapFrom(tile, ts, j, self) ==
    IF j > Len(ts) THEN tile
    ELSE IF j = self THEN SnapFrom(tile, ts, j + 1, self)
    ELSE LET r == SnapTo(tile, ts[j])
         IN  IF r # <<>> THEN [tile EXCEPT !.x = r[1], !.y = r[2]]
             ELSE SnapFrom(tile, ts, j + 1, self)

RECURSIVE SnapBack(_, _, _, _)
\* the same loop run from the last tile of this.tiles down to the first
SnapBack(tile, ts, j, self) ==
    IF j < 1 THEN tile
    ELSE IF j = self THEN SnapBack(tile, ts, j - 1, self)
    ELSE LET r == SnapTo(tile, ts[j])
         IN  IF r # <<>> THEN [tile EXCEPT !.x = r[1], !.y = r[2]]
             ELSE SnapBack(tile, ts, j - 1, self)

snapToNeighborsBackward(tile, ts, self) == SnapBack(tile, ts, Len(ts), self)

snapToNeighbors(tile, ts, self) == SnapFrom(tile, ts, 1, self)

----------------------------------------------------------------------------
(* validateArrangement *)

MinOf(S) == CHOOSE v \in S : \A u \in S : v <= u
MaxOf(S) == CHOOSE v \in S : \A u \in S : v >= u

TileArea(t) == t.w * t.h

RECURSIVE SumArea(_)
SumArea(ts) == IF ts = <<>> THEN 0 ELSE TileArea(Head(ts)) + SumArea(Tail(ts))

IsNeg(t) == t.isNegative
IsPos(t) == ~t.isNegative

\* the bounding box of a non-empty arrangement whose positions are all defined
BBox(ts) ==
    LET idx == 1..Len(ts)
    IN  [minX |-> MinOf({ts[k].x : k \in idx}),
         minY |-> MinOf({ts[k].y : k \in idx}),
         maxX |-> MaxOf({ts[k].x + ts[k].w : k \in idx}),
         maxY |-> MaxOf({ts[k].y + ts[k].h : k \in idx})]

bboxWidth(ts)  == BBox(ts).maxX - BBox(ts).minX
bboxHeight(ts) == BBox(ts).maxY - BBox(ts).minY
bboxArea(ts)   == bboxWidth(ts) * bboxHeight(ts)

\* the area slack 200 px^2 of the three comparisons
AreaTolerance == 200 * PX * PX

\* the pixel threshold 30 of getGridDimensions
GridThreshold == 30 * PX

RECURSIVE GridScan(_, _, _, _, _, _)
\* the double loop of getGridDimensions, a = 1..5 outer and b = 0..10 inner,
\* flattened to k = 0..54; bestErr < 0 stands for Infinity
GridScan(k, pixels, sz, bestErr, bestA, bestB) ==
    IF k > 54
    THEN IF bestErr >= 0 /\ bestErr < GridThreshold THEN <<bestA, bestB>> ELSE <<0, 0>>
    ELSE LET a   == 1 + (k \div 11)
             b   == k % 11
             err == Abs(a * sz.x + b * sz.u - pixels)
         IN  IF bestErr < 0 \/ err < bestErr
             THEN GridScan(k + 1, pixels, sz, err, a, b)
             ELSE GridScan(k + 1, pixels, sz, bestErr, bestA, bestB)

getGridDimensions(pixels, sz) == GridScan(0, pixels, sz, -1, 0, 0)

\* the expansion compared on its x^2 and constant terms only
CutExpandsEnds(gw, gh, p, q, val) ==
    /\ gw[1] * gh[1] = val.a
    /\ (gw[2] - p) * (gh[2] - q) = val.c

\* (f1_x X + f1_c)(f2_x X + f2_c) expanded equals the target
CutExpands(gw, gh, p, q, val) ==
    LET f1_x == gw[1]
        f1_c == gw[2] - p
        f2_x == gh[1]
        f2_c == gh[2] - q
    IN  /\ f1_x * f2_x = val.a
        /\ (f1_x * f2_c) + (f1_c * f2_x) = val.b
        /\ f1_c * f2_c = val.c

expectedNegArea(p, q, U, bw, bh) == (p * U * bh) + (q * U * bw) - (p * q * U * U)

RECURSIVE CutScan(_, _, _, _, _, _, _, _)
\* the double loop over p = 0..5 and q = 0..5, flattened to k = 0..35: whether
\* some pair both expands to the target and accounts for the negative area
CutScan(k, gw, gh, val, U, bw, bh, actualNegArea) ==
    IF k > 35 THEN FALSE
    ELSE LET p == k \div 6
             q == k % 6
         IN  IF /\ ~(p = 0 /\ q = 0)
                /\ CutExpands(gw, gh, p, q, val)
                /\ Abs(expectedNegArea(p, q, U, bw, bh) - actualNegArea) < AreaTolerance
             THEN TRUE
             ELSE CutScan(k + 1, gw, gh, val, U, bw, bh, actualNegArea)

\* the coefficients validateArrangement checks against
ValidatorCoeffs(f) == [a |-> OrDefault(f.a, 0), b |-> OrDefault(f.b, 0), c |-> OrDefault(f.c, 0)]

AllPlaced(ts) == \A k \in 1..Len(ts) : ts[k].hasPos

\* the branch validateArrangement ends in: "empty", "perfect", "overlap" or
\* "invalid"; with an undefined position the box is NaN and no comparison holds
validateArrangement(ts, f, sz) ==
    IF Len(ts) = 0 THEN "empty"
    ELSE IF ~AllPlaced(ts) THEN "invalid"
    ELSE LET hasNegative   == \E k \in 1..Len(ts) : ts[k].isNegative
             positiveTiles == SelectSeq(ts, IsPos)
             negativeTiles == SelectSeq(ts, IsNeg)
             totalTileArea == SumArea(ts)
             baseArea      == SumArea(positiveTiles)
         IN  IF ~hasNegative /\ Abs(bboxArea(ts) - totalTileArea) < AreaTolerance
             THEN "perfect"
             ELSE IF /\ hasNegative
                     /\ Len(positiveTiles) > 0
                     /\ Abs(bboxArea(ts) - baseArea) < AreaTolerance
                     /\ CutScan(0, getGridDimensions(bboxWidth(ts), sz),
                                getGridDimensions(bboxHeight(ts), sz),
                                ValidatorCoeffs(f), sz.u, bboxWidth(ts), bboxHeight(ts),
                                SumArea(negativeTiles))
             THEN "overlap"
             ELSE "invalid"

IsValid(v) == v \in {"perfect", "overlap"}

----------------------------------------------------------------------------
(* The handlers of App *)

\* the reference and the off-list tile once this.tiles is replaced by a new list
DetachOnReplace ==
    /\ dragTarget' = IF dragTarget > 0 THEN Detached ELSE dragTarget
    /\ detached' = IF dragTarget > 0 THEN tiles[dragTarget] ELSE detached

\* the topmost tile containing the point: the reverse loop of handleMouseDown
\* and handleDoubleClick; 0 when none does
TopHit(ts, mx, my) ==
    LET hits == {i \in 1..Len(ts) : contains(ts[i], mx, my)}
    IN  IF hits = {} THEN 0 ELSE MaxOf(hits)

\* this.tiles.splice(i, 1)
Splice(ts, i) == [k \in 1..(Len(ts) - 1) |-> IF k < i THEN ts[k] ELSE ts[k + 1]]

\* spawnTileFromMouse; isNeg is the chk-negative checkbox as it reads it
spawnTileFromMouse(type, isNeg, mx, my) ==
    LET made    == NewTile(type, mx, my, isNeg, sizes)
        newTile == [made EXCEPT !.x = mx - TruncDiv(made.w, 2),
                                !.y = my - TruncDiv(made.h, 2),
                                !.isDragging = TRUE]
    IN  /\ tiles' = Append(tiles, newTile)
        /\ dragTarget' = Len(tiles) + 1
        /\ detached' = NoTile
        /\ dragOffset' = [x |-> mx - newTile.x, y |-> my - newTile.y]
        /\ UNCHANGED <<sizes, canvas, fields, isAnimating, feedback,
                       verdict, plan>>

\* handleMouseDown, when some tile is under the pointer
handleMouseDown(mx, my) ==
    LET i == TopHit(tiles, mx, my)
    IN  /\ i # 0
        /\ tiles' = Append(Splice(tiles, i), [tiles[i] EXCEPT !.isDragging = TRUE])
        /\ dragTarget' = Len(tiles)
        /\ detached' = NoTile
        /\ dragOffset' = [x |-> mx - tiles[i].x, y |-> my - tiles[i].y]
        /\ UNCHANGED <<sizes, canvas, fields, isAnimating, feedback,
                       verdict, plan>>

MoveTo(t, mx, my) ==
    [t EXCEPT !.x = mx - dragOffset.x, !.y = my - dragOffset.y, !.hasPos = TRUE]

\* handleMouseMove
handleMouseMove(mx, my) ==
    /\ dragTarget # 0
    /\ IF dragTarget = Detached
       THEN /\ detached' = MoveTo(detached, mx, my)
            /\ tiles' = tiles
       ELSE /\ tiles' = [tiles EXCEPT ![dragTarget] = MoveTo(tiles[dragTarget], mx, my)]
            /\ detached' = detached
    /\ UNCHANGED <<dragTarget, dragOffset, sizes, canvas, fields, isAnimating, feedback, verdict, plan>>

\* the tile list handleMouseUp leaves: the drag target deleted over the trash
\* zone, snapped otherwise, and no longer dragging
Released(ts, target, inTrash) ==
    IF target = Detached THEN ts
    ELSE IF inTrash THEN Splice(ts, target)
    ELSE [ts EXCEPT ![target] =
             [snapToNeighbors(ts[target], ts, target) EXCEPT !.isDragging = FALSE]]

\* handleMouseUp
handleMouseUp(inTrash) ==
    /\ dragTarget # 0
    /\ tiles' = Released(tiles, dragTarget, inTrash)
    /\ dragTarget' = 0
    /\ detached' = NoTile
    /\ UNCHANGED <<dragOffset, sizes, canvas, fields, isAnimating,
                   feedback, verdict, plan>>

\* handleDoubleClick, when some tile is under the pointer
handleDoubleClick(mx, my) ==
    LET i == TopHit(tiles, mx, my)
    IN  /\ i # 0
        /\ tiles' = [tiles EXCEPT ![i] = rotate(tiles[i])]
        /\ UNCHANGED <<dragTarget, detached, dragOffset, sizes, canvas, fields,
                       isAnimating, feedback, verdict, plan>>

\* the click handler of btn-reset
Reset ==
    /\ tiles' = <<>>
    /\ DetachOnReplace
    /\ feedback' = "hidden"
    /\ UNCHANGED <<dragOffset, sizes, canvas, fields, isAnimating,
                   verdict, plan>>

\* the new scale stored in every tile, width and height left as they were
updateAllTileScales(ts, sz) ==
    [k \in 1..Len(ts) |-> [ts[k] EXCEPT !.uSize = sz.u, !.xSize = sz.x]]

\* updateAllTileDimensions
updateAllTileDimensions(ts, sz) ==
    [k \in 1..Len(ts) |-> updateDimensions([ts[k] EXCEPT !.uSize = sz.u, !.xSize = sz.x])]

\* resize
resize(view) ==
    /\ canvas' = [width |-> view.width, height |-> view.height]
    /\ sizes' = updateTileConfig(view.narrow)
    /\ tiles' = updateAllTileDimensions(tiles, sizes')
    /\ UNCHANGED <<dragTarget, detached, dragOffset, fields, isAnimating,
                   feedback, verdict, plan>>

\* the arrangement solveAndAnimate leaves, given what its search found
Solved(pl, sz, cv) ==
    LET generated == generateTiles(pl.a, pl.b, pl.c, sz)
    IN  IF pl.found THEN SortForRender(AssignTargets(generated, pl, sz, cv))
        ELSE generated

\* solveAndAnimate
solveAndAnimate ==
    /\ plan' = Solve(fields)
    /\ tiles' = Solved(plan', sizes, canvas)
    /\ DetachOnReplace
    /\ isAnimating' = IF plan'.found THEN TRUE ELSE isAnimating
    /\ feedback' = IF plan'.found THEN feedback ELSE "no_nice_rectangles"
    /\ UNCHANGED <<dragOffset, sizes, canvas, fields, verdict>>

\* render, while animating: one step, and the silent validation on settling
render ==
    /\ isAnimating
    /\ tiles' = [k \in 1..Len(tiles) |-> StepTile(tiles[k])]
    /\ IF StepActive(tiles)
       THEN UNCHANGED <<isAnimating, verdict>>
       ELSE /\ isAnimating' = FALSE
            /\ verdict' = validateArrangement(tiles', fields, sizes)
    /\ UNCHANGED <<dragTarget, detached, dragOffset, sizes, canvas, fields,
                   feedback, plan>>

\* the message validateArrangement shows for a verdict
Message(v) ==
    IF v = "empty" THEN "no_tiles"
    ELSE IF v = "perfect" THEN "perfect_rectangle"
    ELSE IF v = "overlap" THEN "valid_overlap"
    ELSE "not_valid"

\* the click handler of btn-check: validateArrangement()
checkArrangement ==
    /\ verdict' = validateArrangement(tiles, fields, sizes)
    /\ feedback' = Message(verdict')
    /\ UNCHANGED <<tiles, dragTarget, detached, dragOffset, sizes, canvas, fields,
                   isAnimating, plan>>

----------------------------------------------------------------------------
(* Inputs *)

\* what parseInt gives for a coefficient field: NaN (<<>>) or an integer
Coeff(lo, hi) == {<<>>} \cup {<<v>> : v \in lo..hi}

\* the display contexts: a wide and a narrow window with their canvas
Views == {[narrow |-> FALSE, width |-> 800 * PX, height |-> 600 * PX],
          [narrow |-> TRUE,  width |-> 360 * PX, height |-> 520 * PX]}

\* a state between events: the view and form contents the constructor
\* found, an arrangement ts, its tile at index target grabbed by its corner
\* (none for 0), and no animation or feedback under way
Between(view, f, ts, target) ==
    /\ tiles = ts
    /\ dragTarget = target
    /\ detached = NoTile
    /\ dragOffset = [x |-> 0, y |-> 0]
    /\ sizes = updateTileConfig(view.narrow)
    /\ canvas = [width |-> view.width, height |-> view.height]
    /\ fields = f
    /\ isAnimating = FALSE
    /\ feedback = "hidden"
    /\ verdict = "none"
    /\ plan = NoPlan

Idle(view, f, ts) == Between(view, f, ts, 0)

\* the form with nothing typed into it
BlankForm == [a |-> <<>>, b |-> <<>>, c |-> <<>>]

----------------------------------------------------------------------------
(* SpecPlan: the solver on every coefficient triple of the bounded range,   *)
(* over an empty arrangement or one holding a dropped unit tile             *)

PlanFields == [a : Coeff(-MaxA, MaxA), b : Coeff(-MaxB, MaxB), c : Coeff(-MaxC, MaxC)]

\* a unit tile spawned at (100, 100) px and released: the prior arrangements
PriorArrangements(sz) ==
    {<<>>, <<NewTile("one", 100 * PX - TruncDiv(sz.u, 2), 100 * PX - TruncDiv(sz.u, 2), FALSE, sz)>>}

InitPlan ==
    \E view \in Views, f \in PlanFields :
        \E ts \in PriorArrangements(updateTileConfig(view.narrow)) : Idle(view, f, ts)

NextPlan == solveAndAnimate

SpecPlan == InitPlan /\ [][NextPlan]_vars

----------------------------------------------------------------------------
(* Claims on the solver *)

\* C1 as stated: whenever the solver reports success, its decomposition
\* factors the target: m*n = a, m*q + n*p = b and p*q = c.
C1_FactorsTarget ==
    (plan.called /\ plan.found) =>
        /\ plan.m * plan.n = plan.a
        /\ plan.m * plan.q + plan.n * plan.p = plan.b
        /\ plan.p * plan.q = plan.c

\* C1 amended: whenever the solver reports success on the coefficients it
\* works with, m*n = |a|, m*q + n*p = b and p*q = c: the decomposition
\* factors |a|x^2 + bx + c, which is the target when a > 0.
C1_FactorsAbsTarget ==
    (plan.called /\ plan.found) =>
        /\ plan.m * plan.n = Abs(plan.a)
        /\ plan.m * plan.q + plan.n * plan.p = plan.b
        /\ plan.p * plan.q = plan.c
        /\ (plan.a > 0 => plan.m * plan.n = plan.a)

\* a success on a negative leading coefficient with unequal m and n
C1_Witness ==
    /\ plan.called /\ plan.found
    /\ plan.a < 0 /\ plan.m # plan.n /\ plan.p # plan.q

\* the listed properties of an arrangement: its tiles in order with their
\* kinds, signs, orientations and positions
Geometry(ts) ==
    [k \in 1..Len(ts) |->
        [type |-> ts[k].type, isNegative |-> ts[k].isNegative,
         rotation |-> ts[k].rotation, x |-> ts[k].x, y |-> ts[k].y]]

\* C2: a solver call that finds no (p, q) reports the failure and leaves the
\* arrangement as it was before the call.
C2_FailureKeepsArrangement ==
    [][(solveAndAnimate /\ ~plan'.found) =>
          /\ feedback' = "no_nice_rectangles"
          /\ Geometry(tiles') = Geometry(tiles)]_vars

\* ax^2 + bx + c is a product of two integer linear factors
HasFactorization(a, b, c) ==
    \E mm \in -Abs(a)..Abs(a), pp \in -Abs(c)..Abs(c) :
        /\ mm # 0 /\ pp # 0
        /\ JsRem(a, mm) = 0 /\ JsRem(c, pp) = 0
        /\ mm * TruncDiv(c, pp) + TruncDiv(a, mm) * pp = b

\* C4: whenever a != 0, c != 0 and an integer factorization exists, the
\* solver reports success.
C4_FindsEveryFactorization ==
    (/\ plan.called /\ plan.a # 0 /\ plan.c # 0
     /\ HasFactorization(plan.a, plan.b, plan.c)) => plan.found

\* a coefficient field that is malformed, missing or zero
Blank(f) == Len(f) = 0 \/ f[1] = 0

\* C13: the planner plans for the integers (a, b, c) the validator checks
\* against for the same form fields, a malformed, missing or zero field
\* being 0 for both.
C13_PlannerReadsAsValidator ==
    plan.called =>
        /\ plan.a = ValidatorCoeffs(fields).a /\ (Blank(fields.a) => plan.a = 0)
        /\ plan.b = ValidatorCoeffs(fields).b /\ (Blank(fields.b) => plan.b = 0)
        /\ plan.c = ValidatorCoeffs(fields).c /\ (Blank(fields.c) => plan.c = 0)

\* how many tiles of a kind the arrangement holds
KindCount(ts, ty) == Len(SelectSeq(ts, LAMBDA t : t.type = ty))

\* the slots the layout loops offer to the bars
BarSlots(pl) == Abs(pl.p) * pl.n + Abs(pl.q) * pl.m

\* C14: after a successful plan the generated squares, bars and units are
\* |a|, |b| and |c| in number, no more than the m*n, |p|*n + |q|*m and
\* |p|*|q| slots of the layout, and every tile has its target set.
C14_EveryTileHasTarget ==
    (plan.called /\ plan.found) =>
        /\ KindCount(tiles, "x2") = Abs(plan.a) /\ Abs(plan.a) <= plan.m * plan.n
        /\ KindCount(tiles, "x") = Abs(plan.b) /\ Abs(plan.b) <= BarSlots(plan)
        /\ KindCount(tiles, "one") = Abs(plan.c) /\ Abs(plan.c) <= Abs(plan.p) * Abs(plan.q)
        /\ \A k \in 1..Len(tiles) : tiles[k].hasTarget

\* a plan with p and q of opposite signs: fewer bars than bar slots, the
\* last bar placed in a row of the second bar loop
C14_Witness ==
    /\ plan.called /\ plan.found
    /\ plan.p * plan.q < 0
    /\ 0 < KindCount(tiles, "x") /\ KindCount(tiles, "x") < BarSlots(plan)
    /\ \A k \in 1..Len(tiles) : tiles[k].hasTarget

----------------------------------------------------------------------------
(* SpecAnim: the solver followed by the animation frames, from an empty     *)
(* arrangement                                                              *)

AnimFields ==
    [a : Coeff(-AnimMaxA, AnimMaxA), b : Coeff(-AnimMaxB, AnimMaxB),
     c : Coeff(-AnimMaxC, AnimMaxC)]

InitAnim == \E view \in Views, f \in AnimFields : Idle(view, f, <<>>)

NextAnim == solveAndAnimate \/ render

SpecAnim == InitAnim /\ [][NextAnim]_vars

\* every tile is at its target
AtTargets(ts) ==
    \A k \in 1..Len(ts) :
        ts[k].hasPos /\ ts[k].hasTarget /\ ts[k].x = ts[k].targetX /\ ts[k].y = ts[k].targetY

\* the planner and the validator read the same coefficients from the form
SameCoefficients == SolverCoeffs(fields) = ValidatorCoeffs(fields)

\* C3, on plans with a positive leading coefficient: once the animation of
\* a successful plan has settled, the silent validation against the same
\* (a, b, c) gives the verdict valid, whatever the signs of p and q.
C3_SettledPlanIsValid ==
    (/\ plan.called /\ plan.found /\ plan.a > 0 /\ SameCoefficients
     /\ ~isAnimating /\ AtTargets(tiles)) => IsValid(verdict)

----------------------------------------------------------------------------
(* SpecSettle: one solver call and the frames that follow it; a frame that  *)
(* is still active requests the next one, so render is weakly fair          *)

\* the Solve button pressed once
PlanOnce == ~plan.called /\ solveAndAnimate

NextSettle == PlanOnce \/ render

SpecSettle == InitAnim /\ [][NextSettle]_vars /\ WF_vars(render)

\* every tile is within the settle threshold of its target on both axes
WithinThreshold(ts) ==
    \A k \in 1..Len(ts) :
        /\ ts[k].hasPos /\ ts[k].hasTarget
        /\ ts[k].x - ts[k].targetX <= PX \div 2 /\ ts[k].targetX - ts[k].x <= PX \div 2
        /\ ts[k].y - ts[k].targetY <= PX \div 2 /\ ts[k].targetY - ts[k].y <= PX \div 2

\* a frame of the stepper and what it reports
Settles == render /\ ~isAnimating'
StaysActive == render /\ isAnimating'

\* C11: an animation under way settles after finitely many frames; a frame
\* reports settled only when every tile was within the threshold before it,
\* and then leaves every tile at its target; no frame reports still active
\* once every tile is within the threshold.
C11_SettlesExactlyOnConvergence ==
    /\ isAnimating ~> ~isAnimating
    /\ [][Settles => (WithinThreshold(tiles) /\ AtTargets(tiles'))]_vars
    /\ [][StaysActive => ~WithinThreshold(tiles)]_vars

\* a settled plan with bars turned both ways, every tile moved onto its target
C11_Witness ==
    /\ plan.called /\ plan.found /\ ~isAnimating
    /\ AtTargets(tiles)
    /\ \E k \in 1..Len(tiles) : tiles[k].type = "x" /\ tiles[k].rotation = 1
    /\ \E k \in 1..Len(tiles) : tiles[k].type = "x" /\ tiles[k].rotation = 0
    /\ \A k \in 1..Len(tiles) : tiles[k].x # 50 * PX

----------------------------------------------------------------------------
(* SpecValidate: the Check button on arrangements of one or two tiles of    *)
(* every kind, sign and orientation, dropped at a few places                *)

\* the product of two grid dimensions has no negative x^2 term: a from 0 up
ValFields == [a : Coeff(0, ValMax), b : Coeff(-ValMax, ValMax), c : Coeff(-ValMax, ValMax)]

\* where a tile lies: the origin, 10 px off it both ways, and one square to
\* the right of it
Places(sz) == {[x |-> 0, y |-> 0], [x |-> 10 * PX, y |-> 10 * PX], [x |-> sz.x, y |-> 0]}

Kinds == {"x2", "x", "one"}

\* a tile as a drop leaves it there, and the same turned by a double click
Dropped(sz) ==
    LET flat == {NewTile(ty, pl.x, pl.y, neg, sz) :
                    ty \in Kinds, pl \in Places(sz), neg \in BOOLEAN}
    IN  flat \cup {rotate(t) : t \in flat}

Arrangements(sz) ==
    {<<t>> : t \in Dropped(sz)} \cup {<<t, u>> : t \in Dropped(sz), u \in Dropped(sz)}

InitValidate ==
    \E view \in Views, f \in ValFields :
        \E ts \in Arrangements(updateTileConfig(view.narrow)) : Idle(view, f, ts)

NextValidate == checkArrangement

SpecValidate == InitValidate /\ [][NextValidate]_vars

NoNegative(ts) == \A k \in 1..Len(ts) : ~ts[k].isNegative

RECURSIVE SumOver(_, _)
\* the sum of f[e] over the elements e of S
SumOver(S, f) ==
    IF S = {} THEN 0
    ELSE LET e == CHOOSE e \in S : TRUE IN f[e] + SumOver(S \ {e}, f)

\* the cells the tiles' edges cut the plane into, each <<x1, x2, y1, y2>>
Cells(ts) ==
    LET xs == {ts[k].x : k \in 1..Len(ts)} \cup {ts[k].x + ts[k].w : k \in 1..Len(ts)}
        ys == {ts[k].y : k \in 1..Len(ts)} \cup {ts[k].y + ts[k].h : k \in 1..Len(ts)}
        Succ(S, v) == MinOf({u \in S : u > v})
    IN  {<<x, Succ(xs, x), y, Succ(ys, y)>> : x \in xs \ {MaxOf(xs)}, y \in ys \ {MaxOf(ys)}}

\* how many tiles cover a cell
Cover(ts, cell) ==
    Cardinality({k \in 1..Len(ts) :
        /\ ts[k].x <= cell[1] /\ cell[2] <= ts[k].x + ts[k].w
        /\ ts[k].y <= cell[3] /\ cell[4] <= ts[k].y + ts[k].h})

CellArea(cell) == (cell[2] - cell[1]) * (cell[4] - cell[3])

\* the area of the bounding box no tile covers
UncoveredArea(ts) ==
    LET gaps == {cell \in Cells(ts) : Cover(ts, cell) = 0}
    IN  SumOver(gaps, [cell \in gaps |-> CellArea(cell)])

\* the area two or more tiles cover
OverlapArea(ts) ==
    LET twice == {cell \in Cells(ts) : Cover(ts, cell) >= 2}
    IN  SumOver(twice, [cell \in twice |-> CellArea(cell)])

\* C5: an arrangement without negative tiles that the validator accepts
\* leaves less than the area tolerance of its bounding box uncovered and has
\* less than the area tolerance covered twice.
C5_AcceptedFillsBox ==
    (NoNegative(tiles) /\ IsValid(verdict)) =>
        /\ UncoveredArea(tiles) < AreaTolerance
        /\ OverlapArea(tiles) < AreaTolerance

CountOf(ts, ty) == Cardinality({k \in 1..Len(ts) : ts[k].type = ty})

\* C6: an arrangement without negative tiles is accepted only if its numbers
\* of SQUARE, BAR and UNIT tiles are a, b and c.
C6_AcceptedMatchesEquation ==
    (NoNegative(tiles) /\ IsValid(verdict)) =>
        /\ CountOf(tiles, "x2") = ValidatorCoeffs(fields).a
        /\ CountOf(tiles, "x") = ValidatorCoeffs(fields).b
        /\ CountOf(tiles, "one") = ValidatorCoeffs(fields).c

MixedSign(ts) ==
    /\ \E k \in 1..Len(ts) : ts[k].isNegative
    /\ \E k \in 1..Len(ts) : ~ts[k].isNegative

\* condition (i) of C7: the positive tiles fill the bounding box
BaseFilled(ts) == Abs(bboxArea(ts) - SumArea(SelectSeq(ts, IsPos))) < AreaTolerance

\* condition (ii) of C7: some cut (p, q) gives the target and the negative area
CutExists(ts, f, sz) ==
    LET gw  == getGridDimensions(bboxWidth(ts), sz)
        gh  == getGridDimensions(bboxHeight(ts), sz)
        val == ValidatorCoeffs(f)
        neg == SumArea(SelectSeq(ts, IsNeg))
    IN  \E p \in 0..5, q \in 0..5 :
            /\ p + q > 0
            /\ gw[1] * gh[1] = val.a
            /\ gw[1] * (gh[2] - q) + (gw[2] - p) * gh[1] = val.b
            /\ (gw[2] - p) * (gh[2] - q) = val.c
            /\ Abs(p * sz.u * bboxHeight(ts) + q * sz.u * bboxWidth(ts)
                   - p * q * sz.u * sz.u - neg) < AreaTolerance

\* C7: a mixed-sign arrangement is accepted if and only if the positive
\* tiles fill the bounding box and some pair (p, q) in 0..5, not both zero,
\* expands to exactly (a, b, c) with the measured negative area within
\* tolerance of p*U*height + q*U*width - p*q*U^2.
C7_MixedSignVerdict ==
    (verdict # "none" /\ MixedSign(tiles)) =>
        (IsValid(verdict) <=> (BaseFilled(tiles) /\ CutExists(tiles, fields, sizes)))

\* a mixed-sign arrangement accepted for a cut with p = 1
C7_Witness ==
    /\ verdict = "overlap" /\ MixedSign(tiles)
    /\ ValidatorCoeffs(fields) = [a |-> 1, b |-> -1, c |-> 0]

Unresolved(ts, sz) ==
    \/ getGridDimensions(bboxWidth(ts), sz) = <<0, 0>>
    \/ getGridDimensions(bboxHeight(ts), sz) = <<0, 0>>

\* C8: a mixed-sign arrangement whose bounding box width or height matches no
\* grid dimension is rejected, whatever (a, b, c).
C8_UnresolvedIsRejected ==
    (verdict # "none" /\ MixedSign(tiles) /\ Unresolved(tiles, sizes)) => ~IsValid(verdict)

----------------------------------------------------------------------------
(* Spec: the gestures and buttons of the running application                *)

\* where the pointer goes: inside the first generated square, and on the
\* free canvas
Pointers == {[x |-> 60 * PX, y |-> 60 * PX], [x |-> 300 * PX, y |-> 300 * PX]}

\* what the user types into the form: x^2 + 2x + 1, which the solver plans,
\* and x^2 + x + 1, which it cannot
FormEntries == [a : {<<1>>}, b : {<<1>>, <<2>>}, c : {<<1>>}]

Init == \E view \in Views : \E f \in FormEntries : Idle(view, f, <<>>)

\* a palette item is pressed; the arrangement is capped at MaxTiles spawns
SpawnRequest ==
    \E ty \in Kinds, isNeg \in BOOLEAN, pt \in Pointers :
        /\ Len(tiles) < MaxTiles
        /\ spawnTileFromMouse(ty, isNeg, pt.x, pt.y)

PointerDown == \E pt \in Pointers : handleMouseDown(pt.x, pt.y)

PointerMove == \E pt \in Pointers : handleMouseMove(pt.x, pt.y)

PointerUp == \E inTrash \in BOOLEAN : handleMouseUp(inTrash)

DoubleActivate == \E pt \in Pointers : handleDoubleClick(pt.x, pt.y)

Next ==
    \/ SpawnRequest
    \/ PointerDown
    \/ PointerMove
    \/ PointerUp
    \/ DoubleActivate
    \/ Reset
    \/ solveAndAnimate

Spec == Init /\ [][Next]_vars


\* the tiles of the arrangement that are grabbed
Grabbed == {k \in 1..Len(tiles) : tiles[k].isDragging}

\* C9: at most one tile is grabbed, the grabbed tile is the drag target,
\* and with no drag target (before a press, after a release) none is.
C9_SingleGrab ==
    /\ Cardinality(Grabbed) <= 1
    /\ \A k \in Grabbed : dragTarget = k
    /\ dragTarget = 0 => Grabbed = {}

----------------------------------------------------------------------------
(* SpecSnap: a grabbed tile released next to one other tile                 *)

\* how far, in px, an edge of the moving tile lies from the edge it faces
Deltas == {-15, -14, 0, 14, 15, 40}

\* a tile of each kind and orientation at (x, y)
Shaped(x, y, sz) ==
    LET flat == {NewTile(ty, x, y, FALSE, sz) : ty \in Kinds}
    IN  flat \cup {rotate(t) : t \in flat}

\* the coordinates that bring an edge of a span of length len within a delta
\* of an edge of the span from lo to hi
NearEdges(lo, hi, len) ==
    {e + d * PX : e \in {lo, hi, lo - len, hi - len}, d \in Deltas}

\* the moving tile, grabbed, wherever its edges come near those of other
Approaching(other, sz) ==
    UNION {{[t EXCEPT !.x = x, !.y = y, !.isDragging = TRUE] :
                x \in NearEdges(other.x, other.x + other.w, t.w),
                y \in NearEdges(other.y, other.y + other.h, t.h)} :
           t \in Shaped(0, 0, sz)}

InitSnap ==
    \E view \in Views :
        \E other \in Shaped(300 * PX, 300 * PX, updateTileConfig(view.narrow)) :
            \E moving \in Approaching(other, updateTileConfig(view.narrow)) :
                Between(view, BlankForm, <<other, moving>>, 2)

NextSnap == PointerUp

SpecSnap == InitSnap /\ [][NextSnap]_vars


\* the four facing-edge cases of C10, for the moving tile t against o: the
\* facing edges within tolerance, and the tops or bottoms (for a side-by-side
\* pair), the lefts or rights (for a stacked pair), within tolerance too
Facing(side, t, o) ==
    LET te == Edges(t)
        oe == Edges(o)
        level   == Abs(te.T - oe.T) < snapDist \/ Abs(te.B - oe.B) < snapDist
        plumb   == Abs(te.L - oe.L) < snapDist \/ Abs(te.R - oe.R) < snapDist
    IN  CASE side = "right"  -> Abs(te.L - oe.R) < snapDist /\ level
          [] side = "left"   -> Abs(te.R - oe.L) < snapDist /\ level
          [] side = "bottom" -> Abs(te.T - oe.B) < snapDist /\ plumb
          [] side = "top"    -> Abs(te.B - oe.T) < snapDist /\ plumb

\* zero gap and zero overlap along the facing edge of that side
Flush(side, t, o) ==
    CASE side = "right"  -> t.x = o.x + o.w
      [] side = "left"   -> t.x + t.w = o.x
      [] side = "bottom" -> t.y = o.y + o.h
      [] side = "top"    -> t.y + t.h = o.y

\* the order in which snapToNeighbors tries the sides
SideOrder == <<"right", "left", "bottom", "top">>

\* a release over the canvas of the moving tile, tiles[2], next to tiles[1]
Drop == handleMouseUp(FALSE) /\ Len(tiles) = 2 /\ dragTarget = 2

\* C10 as stated: whichever facing edges are within tolerance with their
\* perpendicular edges aligned, the release leaves the tiles flush along
\* that facing edge.
C10_FlushAlongFacingEdge ==
    [][Drop => \A i \in 1..4 :
           Facing(SideOrder[i], tiles[2], tiles[1]) => Flush(SideOrder[i], tiles'[2], tiles[1])]_vars

\* C10 amended: the release leaves the tiles flush along the first facing
\* edge, in the order right, left, bottom, top of the other tile, that is
\* within tolerance with its perpendicular edges aligned.
C10_FlushAlongFirstFacingEdge ==
    [][Drop => \A i \in 1..4 :
           (/\ Facing(SideOrder[i], tiles[2], tiles[1])
            /\ \A j \in 1..(i - 1) : ~Facing(SideOrder[j], tiles[2], tiles[1]))
           => Flush(SideOrder[i], tiles'[2], tiles[1])]_vars

\* a released tile flush against the left edge of the other, off the place
\* any approach started from
C10_Witness ==
    /\ dragTarget = 0 /\ Len(tiles) = 2
    /\ ~tiles[2].isDragging
    /\ tiles[2].x + tiles[2].w = tiles[1].x
    /\ tiles[2].y + tiles[2].h = tiles[1].y + tiles[1].h
    /\ tiles[2].h # tiles[1].h

----------------------------------------------------------------------------
(* SpecOrder: a grabbed tile released next to two other tiles that lie      *)
(* side by side, 20 px apart                                                *)

\* how far, in px, an edge of the moving tile lies from an edge of another:
\* well within tolerance, within it, and just outside it
OrderDeltas == {-14, 6, 15}

\* the second other tile, 20 px to the right of the first
Beside(first, sz) == Shaped(first.x + first.w + 20 * PX, first.y, sz)

\* the moving tile, grabbed, wherever its edges come near those of either
MovingBy(first, second, sz) ==
    LET xs(len) == {e + d * PX :
                       e \in {first.x, first.x + first.w, first.x - len, first.x + first.w - len,
                              second.x, second.x + second.w, second.x - len,
                              second.x + second.w - len},
                       d \in OrderDeltas}
        ys(len) == {e + d * PX :
                       e \in {first.y, first.y + first.h, first.y - len, first.y + first.h - len,
                              second.y + second.h, second.y + second.h - len},
                       d \in OrderDeltas}
    IN  UNION {{[t EXCEPT !.x = x, !.y = y, !.isDragging = TRUE] :
                    x \in xs(t.w), y \in ys(t.h)} : t \in Shaped(0, 0, sz)}

InitOrder ==
    \E view \in Views :
        \E first \in Shaped(300 * PX, 300 * PX, updateTileConfig(view.narrow)) :
            \E second \in Beside(first, updateTileConfig(view.narrow)) :
                \E moving \in MovingBy(first, second, updateTileConfig(view.narrow)) :
                    Between(view, BlankForm, <<first, second, moving>>, 3)

NextOrder == PointerUp

SpecOrder == InitOrder /\ [][NextOrder]_vars

\* the other tile o admits an alignment of t: a facing pair of edges, or the
\* left edges, or the top edges, within tolerance together with a pair of
\* the perpendicular edges
Admits(t, o) ==
    LET te == Edges(t)
        oe == Edges(o)
        N(u, v) == u - v < snapDist /\ v - u < snapDist
    IN  \/ \E i \in 1..4 : Facing(SideOrder[i], t, o)
        \/ /\ N(te.L, oe.L)
           /\ N(te.T, oe.T) \/ N(te.B, oe.B) \/ N(te.T, oe.B) \/ N(te.B, oe.T)
        \/ /\ N(te.T, oe.T)
           /\ N(te.L, oe.L) \/ N(te.R, oe.R) \/ N(te.L, oe.R) \/ N(te.R, oe.L)

\* where the release must leave t: the one snap against the first of the
\* others, in arrangement order, that admits an alignment; where t is if
\* none does
FirstMatch(t, others) ==
    IF \E j \in 1..Len(others) : Admits(t, others[j])
    THEN SnapTo(t, others[MinOf({j \in 1..Len(others) : Admits(t, others[j])})])
    ELSE <<t.x, t.y>>

\* a release over the canvas of the moving tile, tiles[3]
DropLast == handleMouseUp(FALSE) /\ Len(tiles) = 3 /\ dragTarget = 3

\* C15: a release moves the moving tile once, to the snap against the first
\* other tile in arrangement order that admits an alignment, whatever the
\* later tiles are; it changes no other tile and nothing of the moving tile
\* but its position and its grabbed flag; when no other tile admits an
\* alignment the moving tile keeps its position.
C15_FirstMatchWins ==
    [][DropLast =>
          /\ tiles'[1] = tiles[1] /\ tiles'[2] = tiles[2] /\ Len(tiles') = 3
          /\ tiles'[3] = [tiles[3] EXCEPT !.x = tiles'[3].x, !.y = tiles'[3].y,
                                          !.isDragging = FALSE]
          /\ <<tiles'[3].x, tiles'[3].y>> = FirstMatch(tiles[3], <<tiles[1], tiles[2]>>)
          /\ Admits(tiles[3], tiles[1]) =>
                 <<tiles'[3].x, tiles'[3].y>> = FirstMatch(tiles[3], <<tiles[1]>>)]_vars

\* a released tile flush right of the first other tile, top to top, and
\* reaching over the left edge of the second
C15_Witness ==
    /\ dragTarget = 0 /\ Len(tiles) = 3
    /\ ~tiles[3].isDragging
    /\ tiles[3].x = tiles[1].x + tiles[1].w
    /\ tiles[3].y = tiles[1].y
    /\ tiles[3].x + tiles[3].w > tiles[2].x

----------------------------------------------------------------------------
(* SpecScale: spawning, turning, releasing, planning and clearing while the *)
(* window changes between the wide and the narrow display context           *)

\* the window resize event
WindowResize == \E view \in Views : resize(view)

\* a positive palette item pressed and dragged to the middle of the canvas
SpawnPositive ==
    \E ty \in Kinds :
        /\ Len(tiles) < MaxTiles
        /\ spawnTileFromMouse(ty, FALSE, 300 * PX, 300 * PX)

NextScale ==
    \/ SpawnPositive
    \/ DoubleActivate
    \/ PointerUp
    \/ WindowResize
    \/ solveAndAnimate
    \/ Reset

SpecScale == Init /\ [][NextScale]_vars

\* the size <<width, height>> a kind and orientation have at a scale
SizeOf(ty, rot, sz) ==
    CASE ty = "x2"  -> <<sz.x, sz.x>>
      [] ty = "one" -> <<sz.u, sz.u>>
      [] ty = "x"   -> IF rot = 0 THEN <<sz.x, sz.u>> ELSE <<sz.u, sz.x>>

\* C12: every tile of the arrangement has the width and height its kind and
\* orientation have at the current scale.
C12_SizeIsCurrent ==
    \A k \in 1..Len(tiles) :
        <<tiles[k].w, tiles[k].h>> = SizeOf(tiles[k].type, tiles[k].rotation, sizes)

\* a plan laid out for the wide window, with a bar each way, seen at the
\* narrow scale
C12_Witness ==
    /\ sizes = MobileSizes
    /\ plan.called /\ plan.found
    /\ \E k \in 1..Len(tiles) : tiles[k].type = "x" /\ tiles[k].rotation = 1
    /\ \E k \in 1..Len(tiles) : tiles[k].type = "x" /\ tiles[k].rotation = 0
    /\ \E k \in 1..Len(tiles) :
           /\ tiles[k].type = "x2" /\ tiles[k].hasTarget
           /\ tiles[k].targetX = TruncDiv(800 * PX - (DesktopSizes.x + DesktopSizes.u), 2)

----------------------------------------------------------------------------
(* SpecFrames: palette spawns with the drag and release of the spawned tile, *)
(* Reset and Solve, interleaved with the animation frames                   *)

\* the tiles of the arrangement that no plan has given a target
Untargeted == {k \in 1..Len(tiles) : ~tiles[k].hasTarget}

\* a palette item pressed while fewer than MaxSpawned tiles lack a target
SpawnBeside ==
    \E ty \in Kinds :
        /\ Cardinality(Untargeted) < MaxSpawned
        /\ spawnTileFromMouse(ty, FALSE, 300 * PX, 300 * PX)

NextFrames ==
    \/ SpawnBeside
    \/ PointerMove
    \/ PointerUp
    \/ Reset
    \/ solveAndAnimate
    \/ render

SpecFrames == Init /\ [][NextFrames]_vars

\* C16: every tile of the arrangement has a defined position, and a frame
\* of the stepper leaves a tile that has no target where it was.
C16_PositionsDefined ==
    /\ \A k \in 1..Len(tiles) : tiles[k].hasPos
    /\ [][render => \A k \in 1..Len(tiles) :
              ~tiles[k].hasTarget => (tiles'[k].x = tiles[k].x /\ tiles'[k].y = tiles[k].y)]_vars

====
